---- MODULE Spec2Model ----
(***************************************************************************)
(* SQL_Adapter (clp_py_utils/sql_adapter.py): a factory that holds a       *)
(* database configuration and opens a connection with the MySQL or the     *)
(* MariaDB client, logging client errors before re-raising them.           *)
(*                                                                         *)
(* The two clients and the logging sink are modelled as recording spies,    *)
(* kept per call site: what was invoked and logged during the call site's  *)
(* current (or last finished) call of the adapter.                         *)
(* Text is a sequence of one-character strings, so that interpolation is   *)
(* concatenation and "contains" is a sub-sequence test.                    *)
(***************************************************************************)
EXTENDS Integers, Sequences, FiniteSets, TLC

\* ------------------------------------------------------------------ bounds
\* Longest database name of a configuration.
MaxNameLen == 2

\* Independent call sites using the same adapter.
Callers == {"a", "b"}

\* ------------------------------------------------------------------- text
\* A letter that occurs in none of the fixed log texts of create_mysql_connection.
NameAlphabet == {"r"}

RECURSIVE SeqsUpTo(_, _)
SeqsUpTo(S, n) ==
    IF n = 0 THEN {<<>>}
    ELSE LET shorter == SeqsUpTo(S, n - 1)
         IN  shorter \cup {Append(s, x) : s \in shorter, x \in S}

Names == SeqsUpTo(NameAlphabet, MaxNameLen)

\* s occurs in t as a contiguous substring.
Contains(t, s) ==
    \E i \in 0..(Len(t) - Len(s)) : SubSeq(t, i + 1, i + Len(s)) = s

\* 'Database access denied.'
AccessDeniedText ==
    <<"D", "a", "t", "a", "b", "a", "s", "e", " ", "a", "c", "c", "e", "s",
      "s", " ", "d", "e", "n", "i", "e", "d", ".">>

\* 'Specified database "'
BadDbPrefix ==
    <<"S", "p", "e", "c", "i", "f", "i", "e", "d", " ", "d", "a", "t", "a",
      "b", "a", "s", "e", " ", "\"">>

\* '" does not exist.'
BadDbSuffix ==
    <<"\"", " ", "d", "o", "e", "s", " ", "n", "o", "t", " ", "e", "x", "i",
      "s", "t", ".">>

\* 'Error connecting to MariaDB: '
MariadbPrefix ==
    <<"E", "r", "r", "o", "r", " ", "c", "o", "n", "n", "e", "c", "t", "i",
      "n", "g", " ", "t", "o", " ", "M", "a", "r", "i", "a", "D", "B", ":",
      " ">>

\* Displayable texts of the errors the clients raise.
ErrTexts == {<<"t", "i", "m", "e", "o", "u", "t">>, <<"d", "o", "w", "n">>}

\* ----------------------------------------------------------------- errors
\* errorcode.ER_ACCESS_DENIED_ERROR, errorcode.ER_BAD_DB_ERROR, and a code
\* that is neither (CR_CONN_HOST_ERROR).
ER_ACCESS_DENIED_ERROR == 1045
ER_BAD_DB_ERROR == 1049
CR_CONN_HOST_ERROR == 2003

Errnos == {ER_ACCESS_DENIED_ERROR, ER_BAD_DB_ERROR, CR_CONN_HOST_ERROR}

\* An exception instance: its class, its error code (-1: none), its
\* displayable text (str(err)) and its identity.
Exc(cls, errno, text, id) ==
    [cls |-> cls, errno |-> errno, text |-> text, id |-> id]

NoId == [by |-> "none", n |-> 0]

NoErr == Exc("None", -1, <<>>, NoId)

NoConn == [client |-> "none", id |-> NoId]

\* What one connect invocation yields: a connection handle or a raised error.
Returns(client, id) == [conn |-> [client |-> client, id |-> id], err |-> NoErr]
Raises(e) == [conn |-> NoConn, err |-> e]
NoResponse == [conn |-> NoConn, err |-> NoErr]

\* Every response of the client to the invocation id: a fresh handle, a
\* fresh error of the client's Error class with any code and text, or a fresh
\* exception that is not of the client's Error class.
ClientResponses(client, errcls, id) ==
    {Returns(client, id)}
    \cup {Raises(Exc(errcls, n, t, id)) : n \in Errnos, t \in ErrTexts}
    \cup {Raises(Exc("Exception", -1, t, id)) : t \in {<<"d", "o", "w", "n">>}}

\* ---------------------------------------------------------- configuration
Types == {"mysql", "mariadb", "postgres", "MySQL"}

Configs == [type : Types, name : Names]

\* Database.get_mysql_connection_params(): the parameter mapping derived
\* from the configuration.
get_mysql_connection_params(cfg) == [database |-> cfg.name]

\* ------------------------------------------------------------------ state
VARIABLES
    constructor_arg,   \* the database_config argument given to __init__
    database_config,   \* self.database_config
    pc,                \* where each caller's call stands
    entry,             \* the method each caller invoked
    previous,          \* how each caller's previous call ended
    err,               \* the local err of the except clause
    connection,        \* the local connection
    outcome,           \* how each caller's call ended
    log,               \* records written to the logging sink during the call
    mysql_connect,     \* invocations of mysql.connector.connect during the call
    mariadb_connect    \* invocations of mariadb.connect during the call

vars == <<constructor_arg, database_config, pc, entry, previous, err,
          connection, outcome, log, mysql_connect, mariadb_connect>>

NoOutcome == [kind |-> "none", conn |-> NoConn, err |-> NoErr]
Return(conn) == [kind |-> "return", conn |-> conn, err |-> NoErr]
Raise(e) == [kind |-> "raise", conn |-> NoConn, err |-> e]

\* A logged record: the object passed to logging.error and its rendering.
TextRecord(text) == [obj |-> NoErr, text |-> text]
ErrRecord(e) == [obj |-> e, text |-> e.text]

\* --------------------------------------------------------------- adapter
\* __init__: the configuration is stored as given.
init_database_config(cfg) == cfg

\* Mutant: an unrecognised type falls back to the MySQL client.
create_connection_target_default_mysql(cfg) ==
    IF "mariadb" = cfg.type THEN "mariadb_try" ELSE "mysql_try"

\* Mutant: the two branches are swapped.
create_connection_target_swapped(cfg) ==
    IF "mysql" = cfg.type THEN "mariadb_try"
    ELSE IF "mariadb" = cfg.type THEN "mysql_try"
    ELSE "raise_NotImplementedError"

\* Mutant: the mariadb branch is missing.
create_connection_target_mysql_only(cfg) ==
    IF "mysql" = cfg.type THEN "mysql_try" ELSE "raise_NotImplementedError"

\* create_connection: the branch taken for the configuration's type.
create_connection_target(cfg) ==
    IF "mysql" = cfg.type THEN "mysql_try"
    ELSE IF "mariadb" = cfg.type THEN "mariadb_try"
    ELSE "raise_NotImplementedError"

\* Mutant: the MariaDB client is invoked without the derived parameters.
mariadb_connect_kwargs_default(cfg) == [database |-> <<>>]

\* The keyword arguments of the connect invocations.
mysql_connect_kwargs(cfg) == get_mysql_connection_params(cfg)
mariadb_connect_kwargs(cfg) == get_mysql_connection_params(cfg)

\* except mysql.connector.Error / except mariadb.Error: the errors caught.
mysql_catches(e) == e.cls = "mysql.connector.Error"
mariadb_catches(e) == e.cls = "mariadb.Error"

\* Mutant: the unknown-database message does not interpolate the name.
mysql_error_records_no_name(cfg, e) ==
    IF e.errno = ER_ACCESS_DENIED_ERROR
    THEN <<TextRecord(AccessDeniedText)>>
    ELSE IF e.errno = ER_BAD_DB_ERROR
    THEN <<TextRecord(BadDbPrefix \o BadDbSuffix)>>
    ELSE <<ErrRecord(e)>>

\* Mutant: the else branch (any other error code) logs nothing.
mysql_error_records_no_else(cfg, e) ==
    IF e.errno = ER_ACCESS_DENIED_ERROR
    THEN <<TextRecord(AccessDeniedText)>>
    ELSE IF e.errno = ER_BAD_DB_ERROR
    THEN <<TextRecord(BadDbPrefix \o cfg.name \o BadDbSuffix)>>
    ELSE <<>>

\* Mutant: a failure is logged only if no earlier call of the adapter failed.
mysql_error_records_once(cfg, e) ==
    IF \E c \in Callers : previous[c] = "raise"
    THEN <<>>
    ELSE IF e.errno = ER_ACCESS_DENIED_ERROR
    THEN <<TextRecord(AccessDeniedText)>>
    ELSE IF e.errno = ER_BAD_DB_ERROR
    THEN <<TextRecord(BadDbPrefix \o cfg.name \o BadDbSuffix)>>
    ELSE <<ErrRecord(e)>>

\* The records create_mysql_connection logs for a caught error.
mysql_error_records(cfg, e) ==
    IF e.errno = ER_ACCESS_DENIED_ERROR
    THEN <<TextRecord(AccessDeniedText)>>
    ELSE IF e.errno = ER_BAD_DB_ERROR
    THEN <<TextRecord(BadDbPrefix \o cfg.name \o BadDbSuffix)>>
    ELSE <<ErrRecord(e)>>

\* Mutant: the message does not interpolate the error.
mariadb_error_records_fixed(e) == <<TextRecord(MariadbPrefix)>>

\* The records create_mariadb_connection logs for a caught error.
mariadb_error_records(e) == <<TextRecord(MariadbPrefix \o e.text)>>

\* Mutant: a new error with the same content is raised instead of err.
mysql_reraise_copy(e) == Raise(Exc(e.cls, e.errno, e.text, NoId))

\* Mutant: the except clause ends without raising.
mariadb_reraise_swallowed(e) == Return(NoConn)

\* raise err, in each except clause.
mysql_reraise(e) == Raise(e)
mariadb_reraise(e) == Raise(e)

\* return connection, in each else clause.
mysql_return(conn) == Return(conn)
mariadb_return(conn) == Return(conn)

NotImplementedError(id) == Exc("NotImplementedError", -1, <<>>, id)

\* The identity of the object created by caller c's next client invocation
\* (or, with no invocation, by its raise statement).
NextId(c) ==
    [by |-> c, n |-> Len(mysql_connect[c]) + Len(mariadb_connect[c]) + 1]

\* ---------------------------------------------------------------- actions
Init ==
    /\ constructor_arg \in Configs
    /\ database_config = init_database_config(constructor_arg)
    /\ pc = [c \in Callers |-> "idle"]
    /\ entry = [c \in Callers |-> "none"]
    /\ previous = [c \in Callers |-> "none"]
    /\ err = [c \in Callers |-> NoErr]
    /\ connection = [c \in Callers |-> NoConn]
    /\ outcome = [c \in Callers |-> NoOutcome]
    /\ log = [c \in Callers |-> <<>>]
    /\ mysql_connect = [c \in Callers |-> <<>>]
    /\ mariadb_connect = [c \in Callers |-> <<>>]

\* Caller c enters method m with a fresh frame and fresh spy records; the
\* first statement of m is next.
Invoke(c, m, first) ==
    /\ previous' = [previous EXCEPT ![c] = outcome[c].kind]
    /\ entry' = [entry EXCEPT ![c] = m]
    /\ pc' = [pc EXCEPT ![c] = first]
    /\ err' = [err EXCEPT ![c] = NoErr]
    /\ connection' = [connection EXCEPT ![c] = NoConn]
    /\ outcome' = [outcome EXCEPT ![c] = NoOutcome]
    /\ log' = [log EXCEPT ![c] = <<>>]
    /\ mysql_connect' = [mysql_connect EXCEPT ![c] = <<>>]
    /\ mariadb_connect' = [mariadb_connect EXCEPT ![c] = <<>>]
    /\ UNCHANGED <<constructor_arg, database_config>>

\* A caller with no call in progress calls one of the three methods.
call_create_connection(c) ==
    /\ pc[c] = "idle"
    /\ Invoke(c, "create_connection", "create_connection")

call_create_mysql_connection(c) ==
    /\ pc[c] = "idle"
    /\ Invoke(c, "create_mysql_connection", "mysql_try")

call_create_mariadb_connection(c) ==
    /\ pc[c] = "idle"
    /\ Invoke(c, "create_mariadb_connection", "mariadb_try")

\* create_connection: dispatch on the type, or raise NotImplementedError.
create_connection(c) ==
    /\ pc[c] = "create_connection"
    /\ LET target == create_connection_target(database_config)
       IN  IF target = "raise_NotImplementedError"
           THEN /\ outcome' = [outcome EXCEPT ![c] = Raise(NotImplementedError(NextId(c)))]
                /\ pc' = [pc EXCEPT ![c] = "idle"]
           ELSE /\ pc' = [pc EXCEPT ![c] = target]
                /\ UNCHANGED outcome
    /\ UNCHANGED <<constructor_arg, database_config, entry, previous, err,
                   connection, log, mysql_connect, mariadb_connect>>

\* The try body of create_mysql_connection: one connect invocation. A
\* returned handle goes to the else clause, a caught error to the except
\* clause, any other exception propagates to the caller.
create_mysql_connection_try(c) ==
    /\ pc[c] = "mysql_try"
    /\ \E r \in ClientResponses("mysql", "mysql.connector.Error", NextId(c)) :
        /\ mysql_connect' = [mysql_connect EXCEPT ![c] = Append(@,
               [kwargs |-> mysql_connect_kwargs(database_config),
                response |-> r])]
        /\ IF r.err = NoErr
           THEN /\ connection' = [connection EXCEPT ![c] = r.conn]
                /\ pc' = [pc EXCEPT ![c] = "mysql_else"]
                /\ UNCHANGED <<err, outcome>>
           ELSE IF mysql_catches(r.err)
           THEN /\ err' = [err EXCEPT ![c] = r.err]
                /\ pc' = [pc EXCEPT ![c] = "mysql_except"]
                /\ UNCHANGED <<connection, outcome>>
           ELSE /\ outcome' = [outcome EXCEPT ![c] = Raise(r.err)]
                /\ pc' = [pc EXCEPT ![c] = "idle"]
                /\ UNCHANGED <<connection, err>>
    /\ UNCHANGED <<constructor_arg, database_config, entry, previous, log,
                   mariadb_connect>>

\* The except clause of create_mysql_connection, up to its raise.
create_mysql_connection_except(c) ==
    /\ pc[c] = "mysql_except"
    /\ log' = [log EXCEPT ![c] = @ \o mysql_error_records(database_config, err[c])]
    /\ pc' = [pc EXCEPT ![c] = "mysql_raise"]
    /\ UNCHANGED <<constructor_arg, database_config, entry, previous, err,
                   connection, outcome, mysql_connect, mariadb_connect>>

\* raise err
create_mysql_connection_raise(c) ==
    /\ pc[c] = "mysql_raise"
    /\ outcome' = [outcome EXCEPT ![c] = mysql_reraise(err[c])]
    /\ pc' = [pc EXCEPT ![c] = "idle"]
    /\ UNCHANGED <<constructor_arg, database_config, entry, previous, err,
                   connection, log, mysql_connect, mariadb_connect>>

\* else: return connection
create_mysql_connection_else(c) ==
    /\ pc[c] = "mysql_else"
    /\ outcome' = [outcome EXCEPT ![c] = mysql_return(connection[c])]
    /\ pc' = [pc EXCEPT ![c] = "idle"]
    /\ UNCHANGED <<constructor_arg, database_config, entry, previous, err,
                   connection, log, mysql_connect, mariadb_connect>>

\* The try body of create_mariadb_connection.
create_mariadb_connection_try(c) ==
    /\ pc[c] = "mariadb_try"
    /\ \E r \in ClientResponses("mariadb", "mariadb.Error", NextId(c)) :
        /\ mariadb_connect' = [mariadb_connect EXCEPT ![c] = Append(@,
               [kwargs |-> mariadb_connect_kwargs(database_config),
                response |-> r])]
        /\ IF r.err = NoErr
           THEN /\ connection' = [connection EXCEPT ![c] = r.conn]
                /\ pc' = [pc EXCEPT ![c] = "mariadb_else"]
                /\ UNCHANGED <<err, outcome>>
           ELSE IF mariadb_catches(r.err)
           THEN /\ err' = [err EXCEPT ![c] = r.err]
                /\ pc' = [pc EXCEPT ![c] = "mariadb_except"]
                /\ UNCHANGED <<connection, outcome>>
           ELSE /\ outcome' = [outcome EXCEPT ![c] = Raise(r.err)]
                /\ pc' = [pc EXCEPT ![c] = "idle"]
                /\ UNCHANGED <<connection, err>>
    /\ UNCHANGED <<constructor_arg, database_config, entry, previous, log,
                   mysql_connect>>

\* The except clause of create_mariadb_connection, up to its raise.
create_mariadb_connection_except(c) ==
    /\ pc[c] = "mariadb_except"
    /\ log' = [log EXCEPT ![c] = @ \o mariadb_error_records(err[c])]
    /\ pc' = [pc EXCEPT ![c] = "mariadb_raise"]
    /\ UNCHANGED <<constructor_arg, database_config, entry, previous, err,
                   connection, outcome, mysql_connect, mariadb_connect>>

\* raise err
create_mariadb_connection_raise(c) ==
    /\ pc[c] = "mariadb_raise"
    /\ outcome' = [outcome EXCEPT ![c] = mariadb_reraise(err[c])]
    /\ pc' = [pc EXCEPT ![c] = "idle"]
    /\ UNCHANGED <<constructor_arg, database_config, entry, previous, err,
                   connection, log, mysql_connect, mariadb_connect>>

\* else: return connection
create_mariadb_connection_else(c) ==
    /\ pc[c] = "mariadb_else"
    /\ outcome' = [outcome EXCEPT ![c] = mariadb_return(connection[c])]
    /\ pc' = [pc EXCEPT ![c] = "idle"]
    /\ UNCHANGED <<constructor_arg, database_config, entry, previous, err,
                   connection, log, mysql_connect, mariadb_connect>>

Next ==
    \E c \in Callers :
        \/ call_create_connection(c)
        \/ call_create_mysql_connection(c)
        \/ call_create_mariadb_connection(c)
        \/ create_connection(c)
        \/ create_mysql_connection_try(c)
        \/ create_mysql_connection_except(c)
        \/ create_mysql_connection_raise(c)
        \/ create_mysql_connection_else(c)
        \/ create_mariadb_connection_try(c)
        \/ create_mariadb_connection_except(c)
        \/ create_mariadb_connection_raise(c)
        \/ create_mariadb_connection_else(c)

Spec == Init /\ [][Next]_vars

\* ------------------------------------------------------------ observation
\* Caller c's call has ended (by return or by raise).
Completed(c) == pc[c] = "idle" /\ outcome[c].kind # "none"

\* The client invocations made during caller c's call.
Invocations(c) == mysql_connect[c] \o mariadb_connect[c]

\* The client's response to the (first) invocation of caller c's call.
Response(c) ==
    IF Invocations(c) = <<>> THEN NoResponse ELSE Invocations(c)[1].response

\* A response without the identities of the objects it carries.
Shape(r) ==
    [client |-> r.conn.client, cls |-> r.err.cls, errno |-> r.err.errno,
     text |-> r.err.text]

\* What a caller and the spies observe of caller c's call, with every object
\* named by its relation to the client's response rather than by identity.
Observation(c) ==
    [kind |-> outcome[c].kind,
     returns_the_handle |-> outcome[c].conn = Response(c).conn,
     raises_the_error |-> outcome[c].err = Response(c).err,
     raised_class |-> outcome[c].err.cls,
     log |-> [i \in 1..Len(log[c]) |->
                 [text |-> log[c][i].text,
                  obj_is_the_error |-> log[c][i].obj = Response(c).err]],
     mysql |-> [i \in 1..Len(mysql_connect[c]) |-> mysql_connect[c][i].kwargs],
     mariadb |-> [i \in 1..Len(mariadb_connect[c]) |-> mariadb_connect[c][i].kwargs]]

\* create_mysql_connection / create_mariadb_connection ran in caller c's call.
RanMysql(c) == entry[c] = "create_mysql_connection" \/ mysql_connect[c] # <<>>
RanMariadb(c) == entry[c] = "create_mariadb_connection" \/ mariadb_connect[c] # <<>>

\* ----------------------------------------------------------------- claims
\* C1: with a type that is neither "mysql" nor "mariadb", create_connection
\* ends by raising NotImplementedError, and during the call neither client is
\* invoked and nothing is logged.
C1_UnsupportedType ==
    \A c \in Callers :
        (entry[c] = "create_connection"
         /\ database_config.type \notin {"mysql", "mariadb"})
        => /\ mysql_connect[c] = <<>>
           /\ mariadb_connect[c] = <<>>
           /\ log[c] = <<>>
           /\ pc[c] \in {"create_connection", "idle"}
           /\ pc[c] = "idle" =>
                 /\ outcome[c].kind = "raise"
                 /\ outcome[c].err.cls = "NotImplementedError"

C1_Witness ==
    \E c \in Callers :
        /\ entry[c] = "create_connection"
        /\ database_config.type = "postgres"
        /\ Completed(c)
        /\ outcome[c].kind = "raise"

\* C2: with type "mysql", a call of create_connection invokes the MySQL
\* client once and the MariaDB client never, and is observed exactly as a
\* direct call of create_mysql_connection that got the same response: same
\* return or raise, same log records, same invocation.
C2_MysqlDelegation ==
    \A c \in Callers :
        (entry[c] = "create_connection" /\ database_config.type = "mysql"
         /\ Completed(c))
        => /\ Len(mysql_connect[c]) = 1
           /\ mariadb_connect[c] = <<>>
           /\ \A d \in Callers :
                 (entry[d] = "create_mysql_connection" /\ Completed(d)
                  /\ Shape(Response(d)) = Shape(Response(c)))
                 => Observation(c) = Observation(d)

C2_Witness ==
    \E c, d \in Callers :
        /\ entry[c] = "create_connection" /\ database_config.type = "mysql"
        /\ entry[d] = "create_mysql_connection"
        /\ Completed(c) /\ Completed(d)
        /\ Shape(Response(d)) = Shape(Response(c))
        /\ Response(c).err.errno = ER_BAD_DB_ERROR
        /\ outcome[c].kind = "raise"

\* C3: with type "mariadb", a call of create_connection invokes the MariaDB
\* client once and the MySQL client never, and is observed exactly as a
\* direct call of create_mariadb_connection that got the same response.
C3_MariadbDelegation ==
    \A c \in Callers :
        (entry[c] = "create_connection" /\ database_config.type = "mariadb"
         /\ Completed(c))
        => /\ Len(mariadb_connect[c]) = 1
           /\ mysql_connect[c] = <<>>
           /\ \A d \in Callers :
                 (entry[d] = "create_mariadb_connection" /\ Completed(d)
                  /\ Shape(Response(d)) = Shape(Response(c)))
                 => Observation(c) = Observation(d)

C3_Witness ==
    \E c, d \in Callers :
        /\ entry[c] = "create_connection" /\ database_config.type = "mariadb"
        /\ entry[d] = "create_mariadb_connection"
        /\ Completed(c) /\ Completed(d)
        /\ Shape(Response(d)) = Shape(Response(c))
        /\ Response(c).err.cls = "mariadb.Error"
        /\ outcome[c].kind = "raise"

\* C4: no error is swallowed. In every call at most one record is logged; a
\* call during which the client raised ends by raising that very error, and
\* a create_connection call with an unsupported type ends by raising
\* NotImplementedError; neither ends by returning.
C4_NeverSwallows ==
    \A c \in Callers :
        /\ Len(log[c]) <= 1
        /\ (Completed(c) /\ Response(c).err # NoErr)
           => outcome[c] = Raise(Response(c).err)
        /\ (Completed(c) /\ entry[c] = "create_connection"
            /\ database_config.type \notin {"mysql", "mariadb"})
           => /\ outcome[c].kind = "raise"
              /\ outcome[c].err.cls = "NotImplementedError"

C4_Witness ==
    \E c \in Callers :
        /\ Completed(c)
        /\ entry[c] = "create_mariadb_connection"
        /\ Response(c).err.cls = "mariadb.Error"
        /\ Len(log[c]) = 1
        /\ outcome[c].kind = "raise"

\* C5: when the MySQL client raises an error with code
\* ER_ACCESS_DENIED_ERROR, create_mysql_connection logs exactly one record,
\* the fixed text 'Database access denied.', and raises that error instance.
C5_AccessDenied ==
    \A c \in Callers :
        (RanMysql(c) /\ Response(c).err.errno = ER_ACCESS_DENIED_ERROR)
        => /\ pc[c] \in {"mysql_except", "mysql_raise", "idle"}
           /\ pc[c] = "mysql_except" => log[c] = <<>>
           /\ pc[c] # "mysql_except" => log[c] = <<TextRecord(AccessDeniedText)>>
           /\ Completed(c) <=> pc[c] = "idle"
           /\ Completed(c) => outcome[c] = Raise(Response(c).err)

C5_Witness ==
    \E c \in Callers :
        /\ entry[c] = "create_mysql_connection"
        /\ Response(c).err.errno = ER_ACCESS_DENIED_ERROR
        /\ Completed(c)
        /\ outcome[c].kind = "raise"
        /\ database_config.name # <<>>

\* C6: when the MySQL client raises an error with code ER_BAD_DB_ERROR,
\* create_mysql_connection logs exactly one record, whose text contains the
\* configuration's name and is not the access-denied text, and raises that
\* error.
C6_UnknownDatabase ==
    \A c \in Callers :
        (RanMysql(c) /\ Response(c).err.errno = ER_BAD_DB_ERROR
         /\ Completed(c))
        => /\ Len(log[c]) = 1
           /\ Contains(log[c][1].text, database_config.name)
           /\ log[c][1].text # AccessDeniedText
           /\ outcome[c] = Raise(Response(c).err)

C6_Witness ==
    \E c \in Callers :
        /\ entry[c] = "create_mysql_connection"
        /\ Response(c).err.errno = ER_BAD_DB_ERROR
        /\ Completed(c)
        /\ Len(database_config.name) = MaxNameLen
        /\ Len(log[c]) = 1

\* C7 as stated: no failure of create_mysql_connection reaches the caller
\* without a log record written before it.
C7_EveryFailureLogged ==
    \A c \in Callers :
        (RanMysql(c) /\ Completed(c) /\ outcome[c].kind = "raise")
        => Len(log[c]) >= 1

\* C7 as amended: a failure of create_mysql_connection with an error of class
\* mysql.connector.Error always ends in a raise, and the step that raises is
\* taken with the one log record already written and raises the client's
\* error; for a code other than access-denied and unknown-database the
\* record is the error itself.
C7_ClientErrorLoggedThenRaised ==
    /\ [](\A c \in Callers :
            (RanMysql(c) /\ Completed(c)
             /\ Response(c).err.cls = "mysql.connector.Error")
            => outcome[c].kind = "raise")
    /\ [][\A c \in Callers :
            (/\ RanMysql(c)
             /\ Response(c).err.cls = "mysql.connector.Error"
             /\ outcome[c].kind = "none"
             /\ outcome'[c].kind # "none")
            => /\ Len(log[c]) = 1
               /\ log'[c] = log[c]
               /\ outcome'[c] = Raise(Response(c).err)
               /\ Response(c).err.errno \notin
                      {ER_ACCESS_DENIED_ERROR, ER_BAD_DB_ERROR}
                  => log[c][1] = ErrRecord(Response(c).err)]_vars

C7_Witness ==
    \E c \in Callers :
        /\ entry[c] = "create_mysql_connection"
        /\ Completed(c)
        /\ Response(c).err.cls = "mysql.connector.Error"
        /\ Response(c).err.errno = CR_CONN_HOST_ERROR
        /\ log[c] = <<ErrRecord(Response(c).err)>>
        /\ outcome[c].kind = "raise"

\* C8 as stated: on any failure of create_mariadb_connection exactly one
\* record is logged, its text contains the error's text, and the error is
\* raised.
C8_AnyFailureLogged ==
    \A c \in Callers :
        (RanMariadb(c) /\ Completed(c) /\ Response(c).err # NoErr)
        => /\ Len(log[c]) = 1
           /\ Contains(log[c][1].text, Response(c).err.text)
           /\ outcome[c] = Raise(Response(c).err)

\* C8 as amended: on a failure of create_mariadb_connection with an error of
\* class mariadb.Error exactly one record is logged, its text contains the
\* error's text, and the error is raised; two such failures with the same
\* text log the same text whatever their error codes.
C8_MariadbErrorLogged ==
    \A c \in Callers :
        (RanMariadb(c) /\ Completed(c)
         /\ Response(c).err.cls = "mariadb.Error")
        => /\ Len(log[c]) = 1
           /\ Contains(log[c][1].text, Response(c).err.text)
           /\ outcome[c] = Raise(Response(c).err)
           /\ \A d \in Callers :
                 (RanMariadb(d) /\ Completed(d)
                  /\ Response(d).err.cls = "mariadb.Error"
                  /\ Response(d).err.text = Response(c).err.text)
                 => log[d][1].text = log[c][1].text

C8_Witness ==
    \E c, d \in Callers :
        /\ entry[c] = "create_mariadb_connection"
        /\ entry[d] = "create_mariadb_connection"
        /\ Completed(c) /\ Completed(d)
        /\ Response(c).err.cls = "mariadb.Error"
        /\ Response(d).err.cls = "mariadb.Error"
        /\ Response(c).err.text = <<"t", "i", "m", "e", "o", "u", "t">>
        /\ Response(d).err.text = Response(c).err.text
        /\ Response(d).err.errno # Response(c).err.errno
        /\ Len(log[c]) = 1

\* C9: a call of create_mysql_connection or create_mariadb_connection
\* invokes its own client exactly once, with the parameters derived from the
\* configuration by get_mysql_connection_params, and the other client never;
\* a returned handle is returned as is with nothing logged, and after a
\* raised error no second invocation follows.
C9_OneInvocation ==
    \A c \in Callers :
        /\ entry[c] = "create_mysql_connection"
           => /\ mariadb_connect[c] = <<>>
              /\ Len(mysql_connect[c]) = (IF pc[c] = "mysql_try" THEN 0 ELSE 1)
              /\ \A i \in 1..Len(mysql_connect[c]) :
                    mysql_connect[c][i].kwargs
                        = get_mysql_connection_params(database_config)
        /\ entry[c] = "create_mariadb_connection"
           => /\ mysql_connect[c] = <<>>
              /\ Len(mariadb_connect[c]) = (IF pc[c] = "mariadb_try" THEN 0 ELSE 1)
              /\ \A i \in 1..Len(mariadb_connect[c]) :
                    mariadb_connect[c][i].kwargs
                        = get_mysql_connection_params(database_config)
        /\ (entry[c] \in {"create_mysql_connection", "create_mariadb_connection"}
            /\ Completed(c) /\ Response(c).conn # NoConn)
           => /\ outcome[c] = Return(Response(c).conn)
              /\ log[c] = <<>>

C9_Witness ==
    \E c, d \in Callers :
        /\ entry[c] = "create_mysql_connection"
        /\ entry[d] = "create_mariadb_connection"
        /\ Completed(c) /\ Completed(d)
        /\ outcome[c].kind = "return"
        /\ outcome[d].kind = "raise"
        /\ Len(mariadb_connect[d]) = 1
        /\ database_config.name # <<>>

\* C10: the adapter is stateless across calls. The stored configuration is
\* always the one given at construction; two finished calls of the same
\* method whose clients responded alike are observed alike, whatever calls
\* came before or ran meanwhile; and every finished call that reaches a
\* client has invoked it exactly once, also after a failed call.
C10_Stateless ==
    /\ database_config = constructor_arg
    /\ \A c, d \in Callers :
          (Completed(c) /\ Completed(d) /\ entry[c] = entry[d]
           /\ Shape(Response(c)) = Shape(Response(d)))
          => Observation(c) = Observation(d)
    /\ \A c \in Callers :
          (Completed(c) /\ outcome[c].err.cls # "NotImplementedError")
          => Len(Invocations(c)) = 1

C10_Witness ==
    \E c, d \in Callers :
        /\ c # d
        /\ previous[c] = "raise"
        /\ previous[d] = "none"
        /\ Completed(c) /\ Completed(d)
        /\ entry[c] = entry[d]
        /\ Shape(Response(c)) = Shape(Response(d))
        /\ Response(c).err.cls = "mysql.connector.Error"
        /\ Len(Invocations(c)) = 1

====
